---- MODULE Spec2Model ----
(***************************************************************************)
(* codemap.py: the tree-state engine of the interactive directory view.    *)
(* The node graph, its token aggregates, the flattener, the foreground key *)
(* handlers, the background scanner and the background tokenizer.          *)
(*                                                                         *)
(* A path is a sequence of name components (<<"r", "b", "x.py">>); a name  *)
(* that is sorted or filtered is the sequence of its character codes.      *)
(* A node object is identified by its path; the object the scanner has     *)
(* removed from the graph while the foreground's cache still refers to it  *)
(* lives on in `detached`.                                                 *)
(***************************************************************************)
EXTENDS Integers, Sequences, FiniteSets, TLC

\* ------------------------------------------------------------------ bounds
\* Number of filesystem changes (create, delete, write) in one behaviour.
MaxFsEvents == 2

\* --------------------------------------------------------- program constants
MAX_TREE_DEPTH == 10

\* ------------------------------------------------------------- the universe
Root == <<"r">>
DirB == <<"r", "b">>
DirC == <<"r", "b", "c">>
DirD == <<"r", "d">>
FileX == <<"r", "b", "c", "x.py">>
FileY == <<"r", "b", "Y.py">>
FileZ == <<"r", "d", "z.py">>
DirG == <<"r", "g">>
FileL == <<"r", "g", "n.log">>

DirPaths == {Root, DirB, DirC, DirD, DirG}
FilePaths == {FileX, FileY, FileZ, FileL}
Paths == DirPaths \cup FilePaths
NoPath == <<>>

\* The characters of each name of the universe.
Codes(name) ==
    CASE name = "r" -> <<114>>
      [] name = "b" -> <<98>>
      [] name = "c" -> <<99>>
      [] name = "d" -> <<100>>
      [] name = "x.py" -> <<120, 46, 112, 121>>
      [] name = "Y.py" -> <<89, 46, 112, 121>>
      [] name = "z.py" -> <<122, 46, 112, 121>>
      [] name = "g" -> <<103>>
      [] name = "n.log" -> <<110, 46, 108, 111, 103>>

\* generate_anonymized_name draws a prefix, "_" and four characters at random:
\* "Archive_0A1B" stands for the draws.
AnonNames ==
    { <<65, 114, 99, 104, 105, 118, 101, 95, 48, 65, 49, 66>> }

\* ------------------------------------------------------------ paths, names
Dirname(p) == IF Len(p) <= 1 THEN NoPath ELSE SubSeq(p, 1, Len(p) - 1)
Basename(p) == Codes(p[Len(p)])

ToLower(s) == [i \in 1..Len(s) |-> IF s[i] >= 65 /\ s[i] <= 90 THEN s[i] + 32 ELSE s[i]]

Min2(a, b) == IF a <= b THEN a ELSE b

\* s < t for two strings, as Python compares them.
StrLess(s, t) ==
    LET n == Min2(Len(s), Len(t))
        diff == {i \in 1..n : s[i] # t[i]}
    IN  IF diff = {} THEN Len(s) < Len(t)
        ELSE LET k == CHOOSE i \in diff : \A j \in diff : i <= j
             IN  s[k] < t[k]

\* ------------------------------------------------------------------- nodes
\* TreeNode.__init__.  None (a file's expanded, a directory's disabled) is
\* FALSE: every read of these fields is a truth test.
NewNode(p, isDir, par) ==
    [ is_dir |-> isDir,
      expanded |-> FALSE,
      display_name |-> Basename(p),
      anonymized |-> FALSE,
      disabled |-> FALSE,
      children |-> <<>>,
      token_count |-> 0,
      parent |-> par ]

\* No object.
NoNode ==
    [ is_dir |-> FALSE,
      expanded |-> FALSE,
      display_name |-> <<>>,
      anonymized |-> FALSE,
      disabled |-> FALSE,
      children |-> <<>>,
      token_count |-> 0,
      parent |-> NoPath ]

original_name(p) == Basename(p)

\* The key of sort_children: (not is_dir, display_name.lower()).
KeyLess(nd, a, b) ==
    \/ nd[a].is_dir /\ ~nd[b].is_dir
    \/ /\ nd[a].is_dir = nd[b].is_dir
       /\ StrLess(ToLower(nd[a].display_name), ToLower(nd[b].display_name))

\* Insert x into the sorted sequence s after every element not greater than it.
RECURSIVE InsertSorted(_, _, _)
InsertSorted(nd, s, x) ==
    IF s = <<>> THEN <<x>>
    ELSE IF KeyLess(nd, x, s[1]) THEN <<x>> \o s
    ELSE <<s[1]>> \o InsertSorted(nd, Tail(s), x)

\* list.sort: a stable sort.
RECURSIVE StableSort(_, _)
StableSort(nd, s) ==
    IF s = <<>> THEN <<>>
    ELSE InsertSorted(nd, StableSort(nd, SubSeq(s, 1, Len(s) - 1)), s[Len(s)])

add_child(nd, p, ch) == [nd EXCEPT ![p].children = Append(@, ch)]

sort_children(nd, p) == [nd EXCEPT ![p].children = StableSort(nd, @)]

\* Whether child ch is counted in its directory's aggregate.
Counted(nd, ch) ==
    \/ nd[ch].is_dir /\ nd[ch].expanded
    \/ ~nd[ch].is_dir /\ ~nd[ch].disabled

\* calculate_token_count: the graph after the call on p.  A directory's
\* count becomes the sum over its counted children, each counted directory
\* recomputed first; the others are left as they are.
RECURSIVE CalcChildren(_, _, _)
RECURSIVE calculate_token_count(_, _)
calculate_token_count(nd, p) ==
    IF ~nd[p].is_dir THEN nd
    ELSE LET r == CalcChildren(nd, nd[p].children, 0)
         IN  [r.nd EXCEPT ![p].token_count = r.sum]

CalcChildren(nd, chs, acc) ==
    IF chs = <<>> THEN [nd |-> nd, sum |-> acc]
    ELSE LET ch == chs[1]
         IN  IF ~Counted(nd, ch) THEN CalcChildren(nd, Tail(chs), acc)
             ELSE LET nd1 == calculate_token_count(nd, ch)
                  IN  CalcChildren(nd1, Tail(chs), acc + nd1[ch].token_count)

\* update_token_count: add delta to p and to every ancestor of p.
RECURSIVE update_token_count(_, _, _)
\* Mutant: the delta stops at p.
update_token_count_NoPropagation(nd, p, delta) == [nd EXCEPT ![p].token_count = @ + delta]

update_token_count(nd, p, delta) ==
    LET nd1 == [nd EXCEPT ![p].token_count = @ + delta]
    IN  IF nd[p].parent # NoPath THEN update_token_count(nd1, nd[p].parent, delta)
        ELSE nd1


\* --------------------------------------------------------------- the filter
\* IGNORED_PATTERNS and ALLOWED_EXTENSIONS, cut to ".log", ".git", "build"
\* and to ".py", ".txt", ".md".
IGNORED_PATTERNS ==
    { <<46, 108, 111, 103>>, <<46, 103, 105, 116>>, <<98, 117, 105, 108, 100>> }
ALLOWED_EXTENSIONS ==
    { <<46, 112, 121>>, <<46, 116, 120, 116>>, <<46, 109, 100>> }

\* p in name
Contains(name, pat) ==
    \E i \in 1..(Len(name) - Len(pat) + 1) : SubSeq(name, i, i + Len(pat) - 1) = pat

\* os.path.splitext(name)[1]: from the last dot, unless only dots precede it.
SplitExt(name) ==
    LET dots == {i \in 1..Len(name) : name[i] = 46}
    IN  IF dots = {} THEN <<>>
        ELSE LET k == CHOOSE i \in dots : \A j \in dots : j <= i
             IN  IF \E j \in 1..(k - 1) : name[j] # 46
                 THEN SubSeq(name, k, Len(name))
                 ELSE <<>>

is_ignored(name) ==
    \/ \E pat \in IGNORED_PATTERNS : Contains(name, pat)
    \/ LET ext == SplitExt(name)
       IN  ALLOWED_EXTENSIONS # {} /\ ext # <<>> /\ ToLower(ext) \notin ALLOWED_EXTENSIONS

\* ----------------------------------------------------------------- the disk
\* A file of the disk: its modification time and the token count of its
\* content (0: empty or unreadable).  A directory is on disk when a file is
\* beneath it.
NoFile == [present |-> FALSE, mtime |-> 0, count |-> 0]

\* A file that was deleted keeps the time of its last write in the model, so
\* that a file created again is newer than the one it replaces.
Gone(file) == [present |-> FALSE, mtime |-> file.mtime, count |-> 0]

IsPrefix(p, q) == Len(p) < Len(q) /\ SubSeq(q, 1, Len(p)) = p

OnDisk(dsk, q) ==
    IF q \in FilePaths THEN dsk[q].present
    ELSE \E f \in FilePaths : dsk[f].present /\ IsPrefix(q, f)

\* os.path.isdir
IsDir(q) == q \in DirPaths

\* count_tokens(f.read()), 0 when the file cannot be read.
ReadCount(dsk, f) == IF f \in FilePaths /\ dsk[f].present THEN dsk[f].count ELSE 0

\* sorted(S) by name, as Python sorts strings.
RECURSIVE SortedByName(_)
SortedByName(S) ==
    IF S = {} THEN <<>>
    ELSE LET m == CHOOSE x \in S : \A y \in S \ {x} : StrLess(Basename(x), Basename(y))
         IN  <<m>> \o SortedByName(S \ {m})

\* sorted(os.listdir(p))
ListDir(dsk, p) == SortedByName({q \in Paths : Dirname(q) = p /\ OnDisk(dsk, q)})

\* ---------------------------------------------------------------- build_tree
\* recurse(node, current_path, depth) over the graph nd and the index idx.
RECURSIVE BuildRecurse(_, _, _, _, _)
RECURSIVE BuildEntries(_, _, _, _, _, _, _)
BuildRecurse(dsk, nd, idx, p, depth) ==
    IF depth > MAX_TREE_DEPTH THEN [nd |-> nd, idx |-> idx, ok |-> FALSE]
    ELSE BuildEntries(dsk, nd, idx, p, ListDir(dsk, p), FALSE, depth)

BuildEntries(dsk, nd, idx, p, entries, has_children, depth) ==
    IF entries = <<>>
    THEN [ nd |-> IF has_children THEN sort_children(nd, p) ELSE nd,
           idx |-> idx,
           ok |-> has_children ]
    ELSE LET q == entries[1]
             rest == Tail(entries)
         IN  IF is_ignored(Basename(q))
             THEN BuildEntries(dsk, nd, idx, p, rest, has_children, depth)
             ELSE IF IsDir(q)
             THEN LET sub == BuildRecurse(dsk, [nd EXCEPT ![q] = NewNode(q, TRUE, p)],
                                          idx, q, depth + 1)
                  IN  IF sub.ok
                      THEN BuildEntries(dsk, add_child(sub.nd, p, q), sub.idx \cup {q},
                                        p, rest, TRUE, depth)
                      ELSE BuildEntries(dsk, [sub.nd EXCEPT ![q] = NoNode], sub.idx,
                                        p, rest, has_children, depth)
             ELSE LET c == ReadCount(dsk, q)
                      nd1 == [nd EXCEPT ![q] = [NewNode(q, FALSE, p) EXCEPT !.token_count = c]]
                      nd2 == IF ~nd1[q].disabled THEN update_token_count(nd1, p, c) ELSE nd1
                  IN  BuildEntries(dsk, add_child(nd2, p, q), idx \cup {q},
                                   p, rest, TRUE, depth)

build_tree(dsk) ==
    LET nd0 == [p \in Paths |->
                   IF p = Root THEN [NewNode(Root, TRUE, NoPath) EXCEPT !.expanded = TRUE]
                   ELSE NoNode]
        b == BuildRecurse(dsk, nd0, {Root}, Root, 0)
    IN  [nd |-> calculate_token_count(b.nd, Root), idx |-> b.idx]

\* ---------------------------------------------------------- persisted state
\* An entry of the state file; a path the file does not name has NoEntry.
NoEntry ==
    [has |-> FALSE, expanded |-> FALSE, anonymized |-> FALSE,
     anonymized_name |-> <<>>, disabled |-> FALSE]

Entry(e, a, n, d) ==
    [has |-> TRUE, expanded |-> e, anonymized |-> a, anonymized_name |-> n, disabled |-> d]

RECURSIVE apply_state(_, _, _, _)
RECURSIVE ApplyChildren(_, _, _)
apply_state(nd, state, p, is_root) ==
    LET e == state[p]
        nd1 == IF is_root THEN [nd EXCEPT ![p].expanded = TRUE]
               ELSE IF nd[p].is_dir
               THEN LET anon == IF e.has THEN e.anonymized ELSE FALSE
                    IN  [nd EXCEPT
                           ![p].expanded = IF e.has THEN e.expanded ELSE nd[p].is_dir,
                           ![p].anonymized = anon,
                           ![p].display_name =
                               IF anon THEN (IF e.has THEN e.anonymized_name ELSE original_name(p))
                               ELSE original_name(p)]
               ELSE [nd EXCEPT ![p].disabled = IF e.has THEN e.disabled ELSE FALSE]
        nd2 == ApplyChildren(nd1, state, nd1[p].children)
    IN  IF nd2[p].is_dir THEN calculate_token_count(nd2, p) ELSE nd2

ApplyChildren(nd, state, chs) ==
    IF chs = <<>> THEN nd
    ELSE ApplyChildren(apply_state(nd, state, chs[1], FALSE), state, Tail(chs))

\* ------------------------------------------------------------- flatten_tree
\* The object a cached path refers to: the detached one when the scanner has
\* removed it since the cache was built.
RECURSIVE flatten_tree(_, _, _, _)
RECURSIVE FlattenChildren(_, _, _, _)
\* Mutant: the traversal descends into collapsed directories too.
flatten_tree_IgnoresExpanded(nd, p, depth, ancestor_has_tokens) ==
    LET show_tokens == ~ancestor_has_tokens /\ nd[p].token_count > 0 /\ nd[p].is_dir
        anc == ancestor_has_tokens \/ show_tokens
        here == <<[path |-> p, depth |-> depth, show_tokens |-> show_tokens]>>
    IN  IF nd[p].is_dir
        THEN here \o FlattenChildren(nd, nd[p].children, depth + 1, anc)
        ELSE here

flatten_tree(nd, p, depth, ancestor_has_tokens) ==
    LET show_tokens == ~ancestor_has_tokens /\ nd[p].token_count > 0 /\ nd[p].is_dir
        anc == ancestor_has_tokens \/ show_tokens
        here == <<[path |-> p, depth |-> depth, show_tokens |-> show_tokens]>>
    IN  IF nd[p].is_dir /\ nd[p].expanded
        THEN here \o FlattenChildren(nd, nd[p].children, depth + 1, anc)
        ELSE here

FlattenChildren(nd, chs, depth, anc) ==
    IF chs = <<>> THEN <<>>
    ELSE flatten_tree(nd, chs[1], depth, anc) \o FlattenChildren(nd, Tail(chs), depth, anc)


\* ------------------------------------------------------ collect_visible_files
\* The (display_path, content) pairs collected from object p; the content of
\* a file is read from the disk when it is collected.
Content(dsk, f) ==
    IF f \in FilePaths /\ dsk[f].present
    THEN [file |-> f, mtime |-> dsk[f].mtime]
    ELSE [file |-> NoPath, mtime |-> 0]

RECURSIVE CollectRecurse(_, _, _, _, _)
RECURSIVE CollectChildren(_, _, _, _, _)
CollectRecurse(nd, dsk, p, path, path_mode) ==
    LET current_path == Append(path, nd[p].display_name)
    IN  IF nd[p].is_dir /\ nd[p].expanded
        THEN CollectChildren(nd, dsk, nd[p].children, current_path, path_mode)
        ELSE IF ~nd[p].is_dir /\ ~nd[p].disabled
        THEN << [ display_path |-> IF path_mode = "relative" THEN current_path
                                   ELSE <<nd[p].display_name>>,
                  content |-> Content(dsk, p) ] >>
        ELSE <<>>

CollectChildren(nd, dsk, chs, path, path_mode) ==
    IF chs = <<>> THEN <<>>
    ELSE CollectRecurse(nd, dsk, chs[1], path, path_mode)
         \o CollectChildren(nd, dsk, Tail(chs), path, path_mode)

collect_visible_files(nd, dsk, p, path_mode) == CollectRecurse(nd, dsk, p, <<>>, path_mode)

\* ------------------------------------------------------------- key handlers
toggle_node(nd, p) ==
    IF nd[p].is_dir THEN [nd EXCEPT ![p].expanded = ~@] ELSE nd

\* name: the draw of generate_anonymized_name.
anonymize_toggle(nd, p, name) ==
    IF nd[p].is_dir
    THEN [nd EXCEPT ![p].anonymized = ~@,
                    ![p].display_name = IF ~nd[p].anonymized THEN name ELSE original_name(p)]
    ELSE nd

RECURSIVE set_subtree_expanded(_, _, _)
RECURSIVE SetChildrenExpanded(_, _, _)
set_subtree_expanded(nd, p, expanded) ==
    IF nd[p].is_dir
    THEN SetChildrenExpanded([nd EXCEPT ![p].expanded = expanded], nd[p].children, expanded)
    ELSE nd

SetChildrenExpanded(nd, chs, expanded) ==
    IF chs = <<>> THEN nd
    ELSE SetChildrenExpanded(set_subtree_expanded(nd, chs[1], expanded), Tail(chs), expanded)

\* Mutant: the new value stays on the clicked directory.
toggle_subtree_OnlyNode(nd, p) ==
    IF nd[p].is_dir THEN [nd EXCEPT ![p].expanded = ~@] ELSE nd

toggle_subtree(nd, p) ==
    IF nd[p].is_dir THEN set_subtree_expanded(nd, p, ~nd[p].expanded) ELSE nd

\* names[q]: the draw of generate_anonymized_name for directory q.
RECURSIVE anonymize_subtree(_, _, _)
RECURSIVE AnonymizeChildren(_, _, _)
anonymize_subtree(nd, p, names) ==
    IF nd[p].is_dir
    THEN AnonymizeChildren(anonymize_toggle(nd, p, names[p]), nd[p].children, names)
    ELSE nd

AnonymizeChildren(nd, chs, names) ==
    IF chs = <<>> THEN nd
    ELSE AnonymizeChildren(anonymize_subtree(nd, chs[1], names), Tail(chs), names)

\* node.calculate_token_count(), then node.parent.calculate_token_count().
RecalcNodeAndParent(nd, p) ==
    LET nd1 == calculate_token_count(nd, p)
    IN  IF nd1[p].parent # NoPath THEN calculate_token_count(nd1, nd1[p].parent) ELSE nd1

\* The ENTER and 'e' handlers on directory p.
HandleExpand(nd, p) == RecalcNodeAndParent(toggle_node(nd, p), p)

\* The 'E' handler on directory p.
HandleExpandSubtree(nd, p) == RecalcNodeAndParent(toggle_subtree(nd, p), p)

\* The 'a' handler on directory p.
HandleAnonymize(nd, p, name) == RecalcNodeAndParent(anonymize_toggle(nd, p, name), p)

\* The 'A' handler on directory p.
HandleAnonymizeSubtree(nd, p, names) == RecalcNodeAndParent(anonymize_subtree(nd, p, names), p)

\* The 'd' handler on the file object obj (in the graph or detached): the
\* object after it, and the graph after its parent's update_token_count.
\* Mutant: the delta of a disable, whichever way the flag went.
DisabledDelta_AlwaysSubtracts(obj) == 0 - obj.token_count

DisabledDelta(obj) ==
    LET previous_tokens == IF ~obj.disabled THEN obj.token_count ELSE 0
        new_tokens == IF obj.disabled THEN obj.token_count ELSE 0
    IN  new_tokens - previous_tokens

ToggleDisabled(obj) == [obj EXCEPT !.disabled = ~@]

HandleDisable(nd, det, p) ==
    LET live == det[p] = NoNode
        obj == IF live THEN nd[p] ELSE det[p]
        obj1 == ToggleDisabled(obj)
        nd1 == IF live THEN [nd EXCEPT ![p] = obj1] ELSE nd
        nd2 == IF obj.parent # NoPath THEN update_token_count(nd1, obj.parent, DisabledDelta(obj))
               ELSE nd1
    IN  [nd |-> nd2, det |-> IF live THEN det ELSE [det EXCEPT ![p] = obj1]]


\* ------------------------------------------------------ the scanner's deltas
\* A snapshot maps each file it holds to its modification time.
NoMtime == -1

\* The walk of scan_filesystem: every file on disk no component of whose
\* path beneath the root is ignored.
WalkAllowed(f) == \A i \in 2..Len(f) : ~is_ignored(Codes(f[i]))

Walk(dsk) ==
    [f \in FilePaths |-> IF dsk[f].present /\ WalkAllowed(f) THEN dsk[f].mtime ELSE NoMtime]

Keys(snap) == {f \in FilePaths : snap[f] # NoMtime}

Added(prev, cur) == Keys(cur) \ Keys(prev)
Removed(prev, cur) == Keys(prev) \ Keys(cur)
Modified(prev, cur) == {f \in Keys(cur) \cap Keys(prev) : cur[f] # prev[f]}

RemoveFirst(s, x) ==
    IF \E i \in 1..Len(s) : s[i] = x
    THEN LET k == CHOOSE i \in 1..Len(s) : s[i] = x /\ \A j \in 1..(i - 1) : s[j] # x
         IN  SubSeq(s, 1, k - 1) \o SubSeq(s, k + 1, Len(s))
    ELSE s

\* One path of `added`.  st holds the graph nd, the index idx and the
\* detached objects det.
AddOne(st, dsk, path) ==
    LET is_dir == IsDir(path)
        parent_path == Dirname(path)
    IN  IF parent_path \in st.idx /\ st.nd[parent_path].is_dir /\ st.nd[parent_path].expanded
        THEN LET c == IF is_dir THEN 0 ELSE ReadCount(dsk, path)
                 new_node == [NewNode(path, is_dir, parent_path) EXCEPT !.token_count = c]
                 nd1 == [st.nd EXCEPT ![path] = new_node]
                 nd2 == IF ~is_dir /\ ~new_node.disabled
                        THEN update_token_count(nd1, parent_path, c) ELSE nd1
                 nd3 == sort_children(add_child(nd2, parent_path, path), parent_path)
             IN  [st EXCEPT !.nd = nd3, !.idx = @ \cup {path}]
        ELSE st

\* Mutant: a removed node leaves its parent's child list and stays indexed.
RemoveOne_KeepsIndex(st, cached, path) ==
    IF path \in st.idx
    THEN LET node == st.nd[path]
             parent == node.parent
         IN  IF parent # NoPath
             THEN LET nd0 == [st.nd EXCEPT ![parent].children = RemoveFirst(@, path)]
                  IN  [st EXCEPT !.nd = IF ~node.is_dir /\ ~node.disabled
                                        THEN update_token_count(nd0, parent, 0 - node.token_count)
                                        ELSE nd0]
             ELSE st
    ELSE st

\* One path of `removed`.  cached: the paths whose objects the foreground's
\* cache refers to; such an object lives on, detached, after its removal.
RemoveOne(st, cached, path) ==
    IF path \in st.idx
    THEN LET node == st.nd[path]
             parent == node.parent
             nd1 == IF parent # NoPath
                    THEN LET nd0 == [st.nd EXCEPT ![parent].children = RemoveFirst(@, path)]
                         IN  IF ~node.is_dir /\ ~node.disabled
                             THEN update_token_count(nd0, parent, 0 - node.token_count)
                             ELSE nd0
                    ELSE st.nd
             keep == path \in cached /\ st.det[path] = NoNode
         IN  [ nd |-> [nd1 EXCEPT ![path] = NoNode],
               idx |-> st.idx \ {path},
               det |-> IF keep THEN [st.det EXCEPT ![path] = node] ELSE st.det ]
    ELSE st

\* Mutant: a modified file gets the fields of a fresh node.
ModifyOne_ResetsNode(st, dsk, path) ==
    IF path \in st.idx /\ ~st.nd[path].is_dir
    THEN LET node == st.nd[path]
             new_count == ReadCount(dsk, path)
             delta == new_count - (IF node.disabled THEN 0 ELSE node.token_count)
             nd1 == [st.nd EXCEPT ![path].token_count = new_count, ![path].disabled = FALSE]
         IN  [st EXCEPT !.nd = IF node.parent # NoPath
                                THEN update_token_count(nd1, node.parent, delta) ELSE nd1]
    ELSE st

\* One path of `modified`.
ModifyOne(st, dsk, path) ==
    IF path \in st.idx /\ ~st.nd[path].is_dir /\ ~st.nd[path].disabled
    THEN LET node == st.nd[path]
             new_count == ReadCount(dsk, path)
             delta == new_count - node.token_count
             nd1 == [st.nd EXCEPT ![path].token_count = new_count]
         IN  [st EXCEPT !.nd = IF node.parent # NoPath
                                THEN update_token_count(nd1, node.parent, delta) ELSE nd1]
    ELSE st

RECURSIVE AddAll(_, _, _)
AddAll(st, dsk, S) ==
    IF S = {} THEN st
    ELSE LET x == CHOOSE y \in S : TRUE IN AddAll(AddOne(st, dsk, x), dsk, S \ {x})

RECURSIVE RemoveAll(_, _, _)
RemoveAll(st, cached, S) ==
    IF S = {} THEN st
    ELSE LET x == CHOOSE y \in S : TRUE IN RemoveAll(RemoveOne(st, cached, x), cached, S \ {x})

RECURSIVE ModifyAll(_, _, _)
ModifyAll(st, dsk, S) ==
    IF S = {} THEN st
    ELSE LET x == CHOOSE y \in S : TRUE IN ModifyAll(ModifyOne(st, dsk, x), dsk, S \ {x})

\* The locked section of a scan cycle: added, then removed, then modified.
ApplyDeltas(st, dsk, cached, prev, cur) ==
    ModifyAll(RemoveAll(AddAll(st, dsk, Added(prev, cur)), cached, Removed(prev, cur)),
              dsk, Modified(prev, cur))

\* ------------------------------------------------------------ the tokenizer
\* One node of the sweep of calculate_token_counts.
TokenizeOne(nd, dsk, path) ==
    IF ~nd[path].is_dir /\ nd[path].token_count = 0 /\ ~nd[path].disabled
    THEN LET c == ReadCount(dsk, path)
             nd1 == [nd EXCEPT ![path].token_count = c]
         IN  IF nd[path].parent # NoPath THEN update_token_count(nd1, nd[path].parent, c)
             ELSE nd1
    ELSE nd

RECURSIVE TokenizeAll(_, _, _)
TokenizeAll(nd, dsk, S) ==
    IF S = {} THEN nd
    ELSE LET x == CHOOSE y \in S : TRUE IN TokenizeAll(TokenizeOne(nd, dsk, x), dsk, S \ {x})


\* ================================================================ the state
VARIABLES
    node,               \* the node objects of the graph, by path
    path_to_node,       \* the keys of the path index
    detached,           \* objects removed from the graph that the cache still holds
    disk,               \* the filesystem
    fs_events,          \* filesystem changes so far
    flattened_cache,    \* run_curses: the last flatten
    tree_changed,       \* run_curses: the local flag, true until the first flatten
    tree_changed_flag,  \* the ChangeSignal
    fgpc,               \* run_curses: "top" of the loop, "input" at getch, "clear"
                        \* between the flatten and tree_changed_flag.clear(),
                        \* "collect" in collect_visible_files, "done" after exit
    previous_state,     \* scan_filesystem: the baseline snapshot
    current_state,      \* scan_filesystem: the snapshot of a cycle, empty between cycles
    scpc,               \* scan_filesystem: "walk", the top of its loop (a cycle is one step)
    inputs,             \* what this run is given: "names" (the user anonymizes, the
                        \* disk is left alone), "disk" (files change, the user does
                        \* not anonymize) or "newdir" (a file appears in a new
                        \* directory, the user does not anonymize)
    lock,               \* the holder of the lock: "free" or "fg"; the other locked
                        \* sections are one step each and need it free
    stop_event,         \* main: the stop flag
    copy_row            \* run_curses: the row 'c' was pressed on while its files
                        \* are collected, 0 otherwise

vars == << node, path_to_node, detached, disk, fs_events, flattened_cache,
           tree_changed, tree_changed_flag, fgpc, previous_state, current_state, scpc, inputs,
           lock, stop_event, copy_row >>

graphVars == << node, path_to_node, detached >>
fgVars == << flattened_cache, tree_changed >>
scVars == << previous_state, current_state, scpc >>
fsVars == << disk, fs_events, inputs >>
syncVars == << lock, stop_event, copy_row >>

\* The token counts a file's content may have.
Counts == {0, 2}

\* The files that are created, deleted and written while the program runs.
ChangingFiles == {FileX, FileY}

\* The file whose creation makes a directory the build has not seen.
NewDirFiles == {FileZ}

\* The files that change in a run that is given inp.
Changing(inp) ==
    CASE inp = "disk" -> ChangingFiles
      [] inp = "newdir" -> NewDirFiles
      [] OTHER -> {}

File(m, c) == [present |-> TRUE, mtime |-> m, count |-> c]

\* The disk the program is started on: x.py and, in a directory of its own,
\* n.log, which the filter ignores; z.py as well where the user anonymizes.
InitDisk(inp) ==
    [f \in FilePaths |->
        CASE f = FileX -> File(0, 2)
          [] f = FileL -> File(0, 1)
          [] f = FileZ /\ inp = "names" -> File(0, 1)
          [] OTHER -> NoFile]

\* The state files the program is started with: none, and one that collapses
\* and anonymizes directories and disables a file.
NoSavedState == [p \in Paths |-> NoEntry]

SavedStates ==
    { NoSavedState,
      [p \in Paths |->
          CASE p = DirB -> Entry(TRUE, TRUE, <<65, 114, 99, 104, 105, 118, 101, 95, 48, 65, 49, 66>>, FALSE)
            [] p = DirC -> Entry(FALSE, FALSE, <<>>, FALSE)
            [] p = FileZ -> Entry(FALSE, FALSE, <<>>, TRUE)
            [] OTHER -> NoEntry] }

NoSnapshot == [f \in FilePaths |-> NoMtime]

\* main: build_tree, apply_state, then the two threads are started; the
\* scanner's first baseline holds the files of the index.
InitialBaseline(dsk, idx) ==
    [f \in FilePaths |-> IF f \in idx /\ dsk[f].present THEN dsk[f].mtime ELSE NoMtime]

Init ==
    \E inp \in {"names", "disk", "newdir"}, saved \in SavedStates :
        LET dsk == InitDisk(inp)
            b == build_tree(dsk)
        IN  /\ node = apply_state(b.nd, saved, Root, TRUE)
            /\ path_to_node = b.idx
            /\ detached = [p \in Paths |-> NoNode]
            /\ disk = dsk
            /\ fs_events = 0
            /\ flattened_cache = <<>>
            /\ tree_changed = TRUE
            /\ tree_changed_flag = FALSE
            /\ fgpc = "top"
            /\ previous_state = InitialBaseline(dsk, b.idx)
            /\ current_state = NoSnapshot
            /\ scpc = "walk"
            /\ inputs = inp
            /\ lock = "free"
            /\ stop_event = FALSE
            /\ copy_row = 0

\* ---------------------------------------------------------- the filesystem
FsCreate(f, c) ==
    /\ f \in Changing(inputs)
    /\ fs_events < MaxFsEvents
    /\ ~disk[f].present
    /\ disk' = [disk EXCEPT ![f] = File(disk[f].mtime + 1, c)]
    /\ fs_events' = fs_events + 1
    /\ UNCHANGED << graphVars, fgVars, tree_changed_flag, fgpc, scVars, inputs, syncVars >>

FsDelete(f) ==
    /\ f \in Changing(inputs)
    /\ fs_events < MaxFsEvents
    /\ disk[f].present
    /\ disk' = [disk EXCEPT ![f] = Gone(disk[f])]
    /\ fs_events' = fs_events + 1
    /\ UNCHANGED << graphVars, fgVars, tree_changed_flag, fgpc, scVars, inputs, syncVars >>

FsWrite(f, c) ==
    /\ f \in Changing(inputs)
    /\ fs_events < MaxFsEvents
    /\ disk[f].present
    /\ disk' = [disk EXCEPT ![f] = File(disk[f].mtime + 1, c)]
    /\ fs_events' = fs_events + 1
    /\ UNCHANGED << graphVars, fgVars, tree_changed_flag, fgpc, scVars, inputs, syncVars >>

\* ------------------------------------------------------- the foreground loop
\* The selection (current_index, moved by 'w', 'W', 's', 'S' and clamped to
\* the cache at the top of the loop) is the input `row` of a key: the row of
\* the cache the user has moved to before pressing it.
CachedPaths(cache) == {cache[i].path : i \in 1..Len(cache)}

Rows == 1..Len(flattened_cache)

NoDetached == [p \in Paths |-> NoNode]

\* The first pass of the loop: tree_changed is set, so the tree is flattened.
FgStart ==
    /\ fgpc = "top"
    /\ LET stale == tree_changed_flag \/ tree_changed
       IN  /\ flattened_cache' =
                 IF stale THEN flatten_tree(node, Root, 0, FALSE) ELSE flattened_cache
           /\ detached' = IF stale THEN NoDetached ELSE detached
    /\ tree_changed' = FALSE
    /\ tree_changed_flag' = FALSE
    /\ fgpc' = "input"
    /\ UNCHANGED << node, path_to_node, fsVars, scVars, syncVars >>

\* The node of a row of the cache.
Selected(row) == flattened_cache[row].path

\* The object behind a cached path.
Obj(p) == IF detached[p] # NoNode THEN detached[p] ELSE node[p]

\* One pass of the loop from getch to the next getch: the key's handler has
\* left the graph nd and the detached objects det, and has set the
\* ChangeSignal iff mutated; the top of the loop then re-flattens when the
\* signal is set, and goes on to clear it.
FgPass(nd, det, mutated) ==
    /\ fgpc = "input"
    /\ lock = "free"
    /\ LET stale == tree_changed_flag \/ mutated
       IN  /\ flattened_cache' =
                 IF stale THEN flatten_tree(nd, Root, 0, FALSE) ELSE flattened_cache
           /\ detached' = IF stale THEN NoDetached ELSE det
           /\ tree_changed_flag' = stale
           /\ fgpc' = IF stale THEN "clear" ELSE "input"
    /\ node' = nd
    /\ UNCHANGED << path_to_node, tree_changed, fsVars, scVars, syncVars >>

\* tree_changed_flag.clear(), after the flatten has left its locked section.
FgClear ==
    /\ fgpc = "clear"
    /\ tree_changed_flag' = FALSE
    /\ fgpc' = "input"
    /\ UNCHANGED << graphVars, fgVars, fsVars, scVars, syncVars >>

\* getch times out, or the key moves the selection.
KeyNone == FgPass(node, detached, FALSE)

\* A key whose handler changes the graph to nd when the selected row is a
\* directory and does nothing otherwise.
DirKey(row, nd) ==
    IF Obj(Selected(row)).is_dir
    THEN FgPass(nd, detached, TRUE)
    ELSE FgPass(node, detached, FALSE)

\* ENTER
KeyEnter(row) == fgpc = "input" /\ DirKey(row, HandleExpand(node, Selected(row)))

\* 'e'
KeyE(row) == fgpc = "input" /\ DirKey(row, HandleExpand(node, Selected(row)))

\* 'E'
KeyShiftE(row) == fgpc = "input" /\ DirKey(row, HandleExpandSubtree(node, Selected(row)))

\* 'a'
KeyA(row) ==
    /\ fgpc = "input"
    /\ inputs = "names"
    /\ \E name \in AnonNames : DirKey(row, HandleAnonymize(node, Selected(row), name))

\* 'A'
KeyShiftA(row) ==
    /\ fgpc = "input"
    /\ inputs = "names"
    /\ \E names \in [DirPaths -> AnonNames] :
           DirKey(row, HandleAnonymizeSubtree(node, Selected(row), names))

\* 'd'
KeyD(row) ==
    /\ fgpc = "input"
    /\ IF ~Obj(Selected(row)).is_dir
       THEN LET r == HandleDisable(node, detached, Selected(row))
            IN  FgPass(r.nd, r.det, TRUE)
       ELSE FgPass(node, detached, FALSE)

\* 'c': the files handed to copy_files_subloop.
FilesToCopy(row, path_mode) ==
    collect_visible_files([node EXCEPT ![Selected(row)] = Obj(Selected(row))],
                          disk, Selected(row), path_mode)

\* 'c' is pressed: the handler takes the lock and calls
\* collect_visible_files on the selected node.
KeyC(row) ==
    /\ fgpc = "input"
    /\ lock = "free"
    /\ lock' = "fg"
    /\ copy_row' = row
    /\ fgpc' = "collect"
    /\ UNCHANGED << graphVars, fgVars, tree_changed_flag, fsVars, scVars, stop_event >>

\* collect_visible_files has read the files and returns; the handler leaves
\* the locked section, the text goes to the clipboard and the loop comes
\* round to its top.
CollectDone ==
    /\ fgpc = "collect"
    /\ lock = "fg"
    /\ lock' = "free"
    /\ copy_row' = 0
    /\ fgpc' = IF tree_changed_flag THEN "clear" ELSE "input"
    /\ flattened_cache' =
           IF tree_changed_flag THEN flatten_tree(node, Root, 0, FALSE) ELSE flattened_cache
    /\ detached' = IF tree_changed_flag THEN NoDetached ELSE detached
    /\ UNCHANGED << node, path_to_node, tree_changed, tree_changed_flag, fsVars, scVars,
                    stop_event >>

\* 'q': the state is gathered under the lock and saved, sys.exit unwinds
\* to main, whose finally sets the stop flag.
Quit ==
    /\ fgpc = "input"
    /\ lock = "free"
    /\ fgpc' = "done"
    /\ stop_event' = TRUE
    /\ UNCHANGED << graphVars, fgVars, tree_changed_flag, fsVars, scVars, lock, copy_row >>

\* ---------------------------------------------------------------- the scanner
\* Mutant: the signal is raised by every cycle.
ScanCycle_AlwaysSignals ==
    /\ scpc = "walk"
    /\ ~stop_event
    /\ UNCHANGED << fgVars, fgpc, disk, fs_events, inputs, current_state, scpc, syncVars >>
    /\ LET cur == Walk(disk)
           changed == Added(previous_state, cur) \cup Removed(previous_state, cur)
                        \cup Modified(previous_state, cur) # {}
           st == ApplyDeltas([nd |-> node, idx |-> path_to_node, det |-> detached], disk,
                             CachedPaths(flattened_cache), previous_state, cur)
       IN  /\ previous_state' = cur
           /\ tree_changed_flag' = TRUE
           /\ IF changed
              THEN /\ lock = "free"
                   /\ node' = st.nd
                   /\ path_to_node' = st.idx
                   /\ detached' = st.det
              ELSE UNCHANGED graphVars

\* One cycle of the loop: the walk, the diff, the locked section when the
\* diff is not empty, the signal, the new baseline.  The walk is one snapshot
\* of the disk, taken as the locked section starts.
ScanCycle ==
    /\ scpc = "walk"
    /\ ~stop_event
    /\ UNCHANGED << fgVars, fgpc, disk, fs_events, inputs, current_state, scpc, syncVars >>
    /\ LET cur == Walk(disk)
           changed == Added(previous_state, cur) \cup Removed(previous_state, cur)
                        \cup Modified(previous_state, cur) # {}
           st == ApplyDeltas([nd |-> node, idx |-> path_to_node, det |-> detached], disk,
                             CachedPaths(flattened_cache), previous_state, cur)
       IN  /\ previous_state' = cur
           /\ IF changed
              THEN /\ lock = "free"
                   /\ node' = st.nd
                   /\ path_to_node' = st.idx
                   /\ detached' = st.det
                   /\ tree_changed_flag' = TRUE
              ELSE UNCHANGED << graphVars, tree_changed_flag >>

\* -------------------------------------------------------------- the tokenizer
\* Mutant: the sweep does not take the lock.
TokenizerSweep_NoLock ==
    /\ node' = TokenizeAll(node, disk, path_to_node)
    /\ tree_changed_flag' = TRUE
    /\ UNCHANGED << path_to_node, detached, fgVars, fgpc, fsVars, scVars, syncVars >>

\* One sweep of the loop, in its locked section; the loop is `while True`.
TokenizerSweep ==
    /\ lock = "free"
    /\ node' = TokenizeAll(node, disk, path_to_node)
    /\ tree_changed_flag' = TRUE
    /\ UNCHANGED << path_to_node, detached, fgVars, fgpc, fsVars, scVars, syncVars >>

Next ==
    \/ \E f \in FilePaths, c \in Counts : FsCreate(f, c)
    \/ \E f \in FilePaths : FsDelete(f)
    \/ \E f \in FilePaths, c \in Counts : FsWrite(f, c)
    \/ FgStart
    \/ FgClear
    \/ KeyNone
    \/ \E row \in Rows : KeyEnter(row)
    \/ \E row \in Rows : KeyE(row)
    \/ \E row \in Rows : KeyShiftE(row)
    \/ \E row \in Rows : KeyA(row)
    \/ \E row \in Rows : KeyShiftA(row)
    \/ \E row \in Rows : KeyD(row)
    \/ \E row \in Rows : KeyC(row)
    \/ CollectDone
    \/ Quit
    \/ ScanCycle
    \/ TokenizerSweep

Spec == Init /\ [][Next]_vars


\* =============================================================== the claims
\* The strict ancestors of a path.
Ancestors(p) == {SubSeq(p, 1, k) : k \in 1..(Len(p) - 1)}

\* The directories of the graph.
GraphDirs == {p \in path_to_node : node[p].is_dir}

RECURSIVE SumCounted(_, _)
SumCounted(nd, chs) ==
    IF chs = <<>> THEN 0
    ELSE (IF Counted(nd, chs[1]) THEN nd[chs[1]].token_count ELSE 0) + SumCounted(nd, Tail(chs))

\* Directory p's stored count is the sum over its counted children.
Consistent(nd, p) == nd[p].token_count = SumCounted(nd, nd[p].children)

\* C1: after any sequence of key, scanner and tokenizer mutations every
\* directory's stored token count equals the sum of the token counts of its
\* counted children (enabled files, expanded directories).
AggregateConsistency == \A p \in GraphDirs : Consistent(node, p)

\* What directory D adds to the aggregate of its strict ancestor A: its
\* stored count when D and every directory between D and A is expanded.
Contribution(nd, D, A) ==
    IF \A Q \in (Ancestors(D) \cup {D}) \ (Ancestors(A) \cup {A}) : nd[Q].expanded
    THEN nd[D].token_count
    ELSE 0

\* The step is 'e' on the expanded directory D.
CollapseStep(D) ==
    /\ fgpc = "input"
    /\ D \in GraphDirs
    /\ node[D].expanded
    /\ \E row \in Rows : Selected(row) = D /\ KeyE(row)

\* C2: collapsing an expanded directory D whose counted descendants have a
\* non-zero total reduces the stored aggregate of every strict ancestor of
\* D, up to the root, by the contribution D made to it.
CollapseReducesEveryAncestor ==
    [][\A D \in DirPaths :
          (CollapseStep(D) /\ node[D].token_count # 0 /\ AggregateConsistency)
          => \A A \in Ancestors(D) :
                node'[A].token_count = node[A].token_count - Contribution(node, D, A)]_vars

\* C3: collapsing an expanded directory and expanding it again, nothing else
\* in between, leaves the stored aggregate of the directory and of each of
\* its ancestors as it was before the collapse.
CollapseExpandRestores ==
    \A D \in GraphDirs :
        (fgpc = "input" /\ node[D].expanded /\ D \in CachedPaths(flattened_cache))
        => LET nd2 == HandleExpand(HandleExpand(node, D), D)
           IN  \A A \in Ancestors(D) \cup {D} : nd2[A].token_count = node[A].token_count

\* The children of p are in the order of sort_children.
Sorted(nd, p) ==
    \A i, j \in 1..Len(nd[p].children) :
        i < j => ~KeyLess(nd, nd[p].children[j], nd[p].children[i])

\* C7: in every reachable state every directory's child list is ordered
\* directories first, then files, each group by the lower-cased display name.
ChildrenSorted == \A p \in GraphDirs : Sorted(node, p)

\* The files of a sequence of collected pairs.
CollectedFiles(pairs) == {pairs[i].content.file : i \in 1..Len(pairs)}

\* The files of the visible sequence that are not disabled.
VisibleEnabledFiles ==
    {p \in CachedPaths(flattened_cache) : ~Obj(p).is_dir /\ ~Obj(p).disabled}

\* C9: whichever row is selected, copy yields exactly one pair for every
\* file of the visible sequence that is not disabled, and no other pair.
CopyYieldsVisibleEnabled ==
    \A row \in Rows :
        (fgpc = "input" /\ ~tree_changed_flag)
        => LET pairs == FilesToCopy(row, "relative")
           IN  /\ CollectedFiles(pairs) = VisibleEnabledFiles
               /\ Len(pairs) = Cardinality(VisibleEnabledFiles)

\* C10: the root is expanded in every reachable state.
RootAlwaysExpanded == node[Root].expanded


\* C4: disabling a file and enabling it again leaves every ancestor's
\* aggregate as it was before the disable, and neither toggle changes the
\* file's own stored count.
DisableEnableRestores ==
    \A row \in Rows :
        LET f == Selected(row)
            r1 == HandleDisable(node, detached, f)
            r2 == HandleDisable(r1.nd, r1.det, f)
            After(r) == IF detached[f] # NoNode THEN r.det[f] ELSE r.nd[f]
        IN  (fgpc = "input" /\ ~Obj(f).is_dir /\ ~Obj(f).disabled)
            => /\ After(r1).disabled /\ ~After(r2).disabled
               /\ After(r1).token_count = Obj(f).token_count
               /\ After(r2).token_count = Obj(f).token_count
               /\ \A A \in Ancestors(f) : r2.nd[A].token_count = node[A].token_count

\* A visible file of the graph has been disabled with 'd'.
DisabledFileVisible ==
    /\ fgpc = "input"
    /\ FileX \in path_to_node
    /\ node[FileX].disabled
    /\ node[FileX].token_count > 0
    /\ FileX \in CachedPaths(flattened_cache)

\* The diff of a cycle that starts with baseline prev on disk dsk.
Diff(prev, dsk) ==
    Added(prev, Walk(dsk)) \cup Removed(prev, Walk(dsk)) \cup Modified(prev, Walk(dsk))

\* The paths of a flatten.
FlattenedPaths(nd) == CachedPaths(flatten_tree(nd, Root, 0, FALSE))

\* The step is a scan cycle whose diff is the one new file f, found under a
\* directory of the graph that is expanded.
AddStep(f) ==
    /\ f \notin path_to_node
    /\ Added(previous_state, Walk(disk)) = {f}
    /\ Removed(previous_state, Walk(disk)) = {}
    /\ Modified(previous_state, Walk(disk)) = {}
    /\ Dirname(f) \in GraphDirs
    /\ node[Dirname(f)].expanded
    /\ ScanCycle

\* The cycle that follows AddStep(f) when f is deleted next: the graph, the
\* index and the detached objects it leaves.
AfterDelete(f) ==
    LET dsk == [disk' EXCEPT ![f] = Gone(@)]
    IN  ApplyDeltas([nd |-> node', idx |-> path_to_node', det |-> detached'], dsk,
                    CachedPaths(flattened_cache'), previous_state', Walk(dsk))

\* The node of f is inserted and every ancestor's aggregate grows by its
\* count; the cycle after f's deletion removes the node from the child list
\* and the index and returns every ancestor's aggregate to its old value.
AddedThenRemoved(f) ==
    /\ f \in path_to_node'
    /\ \E i \in 1..Len(node'[Dirname(f)].children) : node'[Dirname(f)].children[i] = f
    /\ \A A \in Ancestors(f) :
           node'[A].token_count = node[A].token_count + ReadCount(disk, f)
    /\ LET st == AfterDelete(f)
       IN  /\ f \notin st.idx
           /\ \A i \in 1..Len(st.nd[Dirname(f)].children) : st.nd[Dirname(f)].children[i] # f
           /\ \A A \in Ancestors(f) : st.nd[A].token_count = node[A].token_count

\* C5 as stated: a new file under an expanded directory is inserted by one
\* scan cycle, appears in the flatten output and adds its count to every
\* ancestor; the cycle after its deletion removes it and restores the counts.
ScanAddAppearsInFlatten ==
    [][\A f \in FilePaths :
          AddStep(f) => (f \in FlattenedPaths(node') /\ AddedThenRemoved(f))]_vars

\* C5 as amended: the inserted node appears in the flatten output exactly
\* when every ancestor of the file is expanded; the rest as stated.
ScanAddThenRemoveRestores ==
    [][\A f \in FilePaths :
          AddStep(f)
          => /\ (f \in FlattenedPaths(node')) = (\A A \in Ancestors(f) : node[A].expanded)
             /\ AddedThenRemoved(f)]_vars

\* The scanner has inserted Y.py, a file created after the build, and the
\* foreground shows it.
ScannedFileInserted ==
    /\ FileY \in path_to_node
    /\ node[FileY].token_count > 0
    /\ node[DirB].token_count >= node[FileY].token_count
    /\ FileY \in CachedPaths(flattened_cache)
    /\ previous_state = Walk(disk)

\* C6: a scan cycle raises the ChangeSignal when one of its added, removed
\* and modified sets is not empty and touches neither the signal, the graph
\* nor the index otherwise; a cycle that follows it with no filesystem change
\* in between finds all three sets empty.
ScanSignalsOnlyChange ==
    [][ScanCycle
       => /\ Diff(previous_state, disk) # {} => tree_changed_flag'
          /\ Diff(previous_state, disk) = {} => UNCHANGED << graphVars, tree_changed_flag >>
          /\ Diff(previous_state', disk') = {}]_vars

\* A cycle has picked up a change of the disk and the foreground has since
\* cleared the signal: the next cycle finds nothing.
ScanCaughtUp ==
    /\ fs_events > 0
    /\ previous_state = Walk(disk)
    /\ previous_state # InitialBaseline(InitDisk(inputs), path_to_node)
    /\ ~tree_changed_flag

\* p hangs in the graph: each node from p up to the root is in its parent's
\* child list.
Attached(nd, p) ==
    \A q \in (Ancestors(p) \cup {p}) \ {Root} :
        \E i \in 1..Len(nd[Dirname(q)].children) : nd[Dirname(q)].children[i] = q

\* The nodes a flatten must show: those all of whose strict ancestors are
\* expanded.
Visible(nd) == {p \in Paths : Attached(nd, p) /\ \A A \in Ancestors(p) : nd[A].expanded}

IndexOf(s, x) == CHOOSE i \in 1..Len(s) : s[i] = x

\* u comes before v in the depth-first pre-order that follows the child lists.
PreOrderBefore(nd, u, v) ==
    \/ u \in Ancestors(v)
    \/ /\ v \notin Ancestors(u)
       /\ LET k == CHOOSE i \in 1..Min2(Len(u), Len(v)) :
                       u[i] # v[i] /\ \A j \in 1..(i - 1) : u[j] = v[j]
              par == SubSeq(u, 1, k - 1)
          IN  IndexOf(nd[par].children, SubSeq(u, 1, k))
                < IndexOf(nd[par].children, SubSeq(v, 1, k))

\* C8: flattening from the root emits, in depth-first pre-order following the
\* child lists, exactly the nodes all of whose strict ancestors are expanded,
\* each once, with its number of strict ancestors as depth.
FlattenIsVisiblePreOrder ==
    LET F == flatten_tree(node, Root, 0, FALSE)
    IN  /\ CachedPaths(F) = Visible(node)
        /\ Len(F) = Cardinality(Visible(node))
        /\ \A i \in 1..Len(F) : F[i].depth = Cardinality(Ancestors(F[i].path))
        /\ \A i, j \in 1..Len(F) : i < j => PreOrderBefore(node, F[i].path, F[j].path)

\* The cache is the flatten of a graph with a collapsed directory that has
\* children, next to rows that are shown.
FlattenSkipsCollapsed ==
    /\ fgpc = "input"
    /\ flattened_cache = flatten_tree(node, Root, 0, FALSE)
    /\ Len(flattened_cache) >= 3
    /\ \E D \in GraphDirs :
           /\ ~node[D].expanded
           /\ node[D].children # <<>>
           /\ D \in CachedPaths(flattened_cache)
           /\ node[D].children[1] \notin CachedPaths(flattened_cache)


MissingEntryDefaults ==
    \A saved \in SavedStates :
        LET b == build_tree(InitDisk(inputs))
            nd == apply_state(b.nd, saved, Root, TRUE)
        IN  /\ nd[Root].expanded
            /\ \A p \in b.idx \ {Root} :
                   saved[p] = NoEntry
                   => IF nd[p].is_dir
                      THEN ~nd[p].expanded /\ ~nd[p].anonymized
                      ELSE ~nd[p].disabled

\* The directories and files of the graph beneath D.
Descendants(nd, D) == {q \in Paths : D \in Ancestors(q) /\ Attached(nd, q)}

\* C13: after 'A' on directory D, D's anonymized flag is the negation of what
\* it was and every directory beneath D carries D's new flag.
SubtreeAnonymizeUniform ==
    [][\A row \in Rows :
          LET D == Selected(row)
          IN  (fgpc = "input" /\ Obj(D).is_dir /\ KeyShiftA(row))
              => /\ node'[D].anonymized = ~node[D].anonymized
                 /\ \A q \in Descendants(node, D) :
                        node[q].is_dir => node'[q].anonymized = node'[D].anonymized]_vars

\* C14: after 'E' on directory D, D's expanded flag is the negation of what
\* it was, every directory beneath D has D's new value, and no file node is
\* changed.
SubtreeExpandUniform ==
    [][\A row \in Rows :
          LET D == Selected(row)
          IN  (fgpc = "input" /\ Obj(D).is_dir /\ KeyShiftE(row))
              => /\ node'[D].expanded = ~node[D].expanded
                 /\ \A q \in Descendants(node, D) :
                        node[q].is_dir => node'[q].expanded = node'[D].expanded
                 /\ \A f \in FilePaths : node'[f] = node[f]]_vars

\* Every directory of the tree is collapsed, the state 'E' on the root
\* leaves of a tree loaded with r/b and r/d expanded and r/b/c collapsed.
SubtreeCollapsedFromRoot ==
    /\ fgpc = "input"
    /\ ~node[Root].expanded /\ ~node[DirB].expanded /\ ~node[DirC].expanded
    /\ node[DirB].children # <<>>
    /\ inputs = "names"
    /\ ~node[DirD].expanded
    /\ node[DirD].token_count = 1


\* C15: the foreground does not hold the lock while collect_visible_files
\* reads the contents of the files to export.
ExportReadsLockFree == fgpc = "collect" => lock # "fg"

\* C16: once the stop flag is set, no step mutates the graph or the index or
\* raises the ChangeSignal.
StopHaltsBackground ==
    [][stop_event => UNCHANGED << node, path_to_node, tree_changed_flag >>]_vars

\* The child lists, the parent links and the index agree: the children of an
\* indexed node are indexed, point back to it and are listed once, and every
\* indexed node but the root is listed by its parent.
Structure(nd, idx) ==
    /\ \A p \in idx :
           /\ \A i \in 1..Len(nd[p].children) :
                  /\ nd[p].children[i] \in idx
                  /\ nd[nd[p].children[i]].parent = p
                  /\ \A j \in 1..Len(nd[p].children) :
                         nd[p].children[i] = nd[p].children[j] => i = j
           /\ p # Root => /\ nd[p].parent \in idx
                          /\ \E i \in 1..Len(nd[nd[p].parent].children) :
                                 nd[nd[p].parent].children[i] = p
    /\ \A p \in Paths \ idx : nd[p] = NoNode

\* C17: a step that writes a node, a child list or the index takes the lock
\* when no thread holds it and has released it when the step ends; the lock
\* is held across steps by the foreground alone, while it collects; and in
\* every state a flatten can run in, child lists, parent links and index
\* agree.
WritesUnderLock ==
    [][/\ (node' # node \/ path_to_node' # path_to_node)
           => (lock = "free" /\ lock' = "free")
       /\ (lock' = "fg") = (fgpc' = "collect")
       /\ Structure(node, path_to_node)
       /\ Structure(node', path_to_node')]_vars

\* The foreground holds the lock, collecting, while the disk holds a change
\* the scanner has yet to apply and a file the tokenizer has yet to count.
BackgroundWaitsForLock ==
    /\ fgpc = "collect"
    /\ lock = "fg"
    /\ Diff(previous_state, disk) # {}
    /\ \E f \in path_to_node : ~node[f].is_dir /\ node[f].token_count = 0 /\ ~node[f].disabled

\* C18: a scan cycle that runs while directory r/d, created after the build,
\* holds the allowed file z.py, and while r/d's parent is in the graph and
\* expanded, leaves r/d and z.py in the graph.
NewDirectoryInserted ==
    [][(/\ inputs = "newdir"
        /\ disk[FileZ].present
        /\ Root \in path_to_node
        /\ node[Root].expanded
        /\ ScanCycle)
       => (DirD \in path_to_node' /\ FileZ \in path_to_node')]_vars

\* C19: the build makes a node, listed by its parent and indexed, for exactly
\* the entries on disk no component of whose path beneath the root is
\* ignored.
BuildCreatesEveryAllowedEntry ==
    LET dsk == InitDisk(inputs)
        b == build_tree(dsk)
    IN  \A p \in Paths \ {Root} :
            (OnDisk(dsk, p) /\ WalkAllowed(p) /\ Len(p) - 1 <= MAX_TREE_DEPTH + 1)
            <=> (/\ p \in b.idx
                 /\ \E i \in 1..Len(b.nd[Dirname(p)].children) :
                        b.nd[Dirname(p)].children[i] = p)

\* C20: the ChangeSignal, on which the next tick flattens again, is raised
\* only by a step that mutates the graph.
SignalOnlyOnMutation ==
    [][(tree_changed_flag' /\ ~tree_changed_flag)
       => (node' # node \/ path_to_node' # path_to_node)]_vars


\* C21: whenever the foreground waits for a key with a cache that is no
\* longer the flatten of the graph, the ChangeSignal is set: no signal was
\* cleared without a flatten that saw the mutation it stands for.
StaleCacheSignalled ==
    (fgpc = "input" /\ flattened_cache # flatten_tree(node, Root, 0, FALSE))
    => tree_changed_flag


\* C22: after a scan cycle every file of its modified set that has a node,
\* disabled or not, stores the count of its current content; when the file is
\* the whole diff, each ancestor's aggregate moves by new - old if the file is
\* counted and stays if it is disabled.
ModifiedFilesRecounted ==
    [][\A f \in FilePaths :
          (/\ f \in path_to_node
           /\ f \in Modified(previous_state, Walk(disk))
           /\ ScanCycle)
          => /\ node'[f].token_count = ReadCount(disk, f)
             /\ Diff(previous_state, disk) = {f}
                => \A A \in Ancestors(f) :
                       node'[A].token_count =
                           IF node[f].disabled THEN node[A].token_count
                           ELSE node[A].token_count + ReadCount(disk, f) - node[f].token_count]_vars


\* C23: the file a 'd' is applied to is in the graph when the handler runs:
\* it is indexed and the cached object is the indexed one, not one the
\* scanner has removed.
MutationTargetsLiveNode ==
    [][\A row \in Rows :
          (fgpc = "input" /\ ~Obj(Selected(row)).is_dir /\ KeyD(row))
          => (Selected(row) \in path_to_node /\ detached[Selected(row)] = NoNode)]_vars

\* C24: no node, in the graph or held by the cache, stores a negative count.
NonNegativeCounts ==
    \A p \in Paths : node[p].token_count >= 0 /\ detached[p].token_count >= 0


\* The paths reached from the root through the child lists.
Reachable(nd) == {p \in Paths : Attached(nd, p)}

\* How often path p is listed in the child lists of the graph.
RECURSIVE Listings(_, _, _)
Listings(nd, S, p) ==
    IF S = {} THEN 0
    ELSE LET q == CHOOSE x \in S : TRUE
         IN  Cardinality({i \in 1..Len(nd[q].children) : nd[q].children[i] = p})
               + Listings(nd, S \ {q}, p)

\* C25: the index holds exactly the nodes reached from the root through the
\* child lists; every node but the root is listed once, in the list of the
\* directory its path lies in, and that directory is its parent reference;
\* nothing outside the index is a node.
IndexMatchesGraph ==
    /\ path_to_node = Reachable(node)
    /\ \A p \in Paths :
           Listings(node, Paths, p) = IF p \in path_to_node \ {Root} THEN 1 ELSE 0
    /\ \A p \in path_to_node \ {Root} :
           /\ node[p].parent = Dirname(p)
           /\ \E i \in 1..Len(node[Dirname(p)].children) : node[Dirname(p)].children[i] = p
    /\ node[Root].parent = NoPath
    /\ \A p \in Paths \ path_to_node : node[p] = NoNode

\* The scanner has inserted Y.py and removed x.py.
ScannerAddedAndRemoved ==
    /\ FileY \in path_to_node
    /\ FileX \notin path_to_node
    /\ ~disk[FileX].present
    /\ previous_state = Walk(disk)
    /\ node[DirC].children = <<>>
    /\ DirC \in path_to_node

====
